---- MODULE Spec2Model ----
(***************************************************************************)
(* Core Web Vitals dashboard (streamlit_app.py): the consolidation         *)
(* pipeline.  The history store is the directory HISTORY_DIR, one          *)
(* tab-separated file per canonical date; process_consolidated_file        *)
(* archives the raw report into it, load_historical_data and               *)
(* load_current_data read it back, and the "Current Status" tab merges     *)
(* the desktop and mobile rows of the latest slice.                        *)
(*                                                                         *)
(* Text is a sequence of characters, each a one-character string; a few    *)
(* fixed words ("GMT", "desktop", the file-name suffix) are kept as one    *)
(* token.  A DataFrame is a sequence of records (column name -> value);    *)
(* a file is what to_csv writes: a header line and lines of text cells.    *)
(***************************************************************************)
EXTENDS Integers, Sequences, FiniteSets, TLC

VARIABLES
    store,          \* HISTORY_DIR: file name -> file content
    ret,            \* the value the last operation returned: consolidated_df is
                    \* not kept, df (line 80), historical_df (line 81)
    merged,         \* merged_df as of line 211 (outer merge + all_green)
    merged_df,      \* merged_df as of line 227 (filtered and sorted)
    daily_metrics,  \* daily_metrics of the "Trend Analysis" tab (line 304)
    op,             \* the operation that ran last
    err,            \* the exception that operation raised, or "none"
    log,            \* what the last archive run met: the files unseen, the file whose
                    \* write failed, the files kept although the report had other rows
    pc,             \* concurrent archivers: position of each process
    local,          \* concurrent archivers: consolidated_df of each process
    todo,           \* concurrent archivers: dates the loop has still to visit
    nwrites         \* number of to_csv calls completed per history file

vars == <<store, ret, merged, merged_df, daily_metrics, op, err, log,
          pc, local, todo, nwrites>>

-----------------------------------------------------------------------------
(* Bounds of the model *)

\* longest raw report (rows) handed to the archiver
MaxRows == 2
\* longest single-date report (rows) handed to the merge view
MaxSliceRows == 3
\* number of concurrent archiving processes
NumProcs == 2

(* Program constants *)

\* pass threshold of INP, CLS and LCP
Threshold == 75

None == <<>>

-----------------------------------------------------------------------------
(* Text *)

Digit == <<"0", "1", "2", "3", "4", "5", "6", "7", "8", "9">>

Suffix == "_cwv_report.txt"

\* code points, for Python's str comparison (max, sort_values)
Ord(c) ==
    CASE c = " " -> 32
      [] c = "+" -> 43
      [] c = "-" -> 45
      [] c = "." -> 46
      [] c = "0" -> 48
      [] c = "1" -> 49
      [] c = "2" -> 50
      [] c = "3" -> 51
      [] c = "4" -> 52
      [] c = "5" -> 53
      [] c = "6" -> 54
      [] c = "7" -> 55
      [] c = "8" -> 56
      [] c = "9" -> 57
      [] c = "GMT" -> 71
      [] c = Suffix -> 95
      [] c = "a" -> 97
      [] c = "b" -> 98
      [] c = "c" -> 99
      [] c = "desktop" -> 100
      [] c = "mobile" -> 109
      [] c = "m" -> 109
      [] c = "o" -> 111

IsDigit(c) == \E i \in 1..10 : Digit[i] = c

DigitValue(c) == (CHOOSE i \in 1..10 : Digit[i] = c) - 1

\* Python's str < str: the first differing character decides, a proper prefix is smaller
StrLess(s, t) ==
    \E i \in 1..(Len(t)) :
        /\ \A j \in 1..(i - 1) : j <= Len(s) /\ s[j] = t[j]
        /\ \/ i = Len(s) + 1
           \/ i <= Len(s) /\ Ord(s[i]) < Ord(t[i])

\* str(n) of a non-negative integer
RECURSIVE Str(_)
Str(n) == IF n < 10 THEN <<Digit[n + 1]>> ELSE Str(n \div 10) \o <<Digit[(n % 10) + 1]>>

\* int(s) of a digit string
RECURSIVE ParseInt(_)
ParseInt(s) == IF s = <<>> THEN 0 ELSE 10 * ParseInt(SubSeq(s, 1, Len(s) - 1)) + DigitValue(s[Len(s)])

IsNumeric(s) == s # <<>> /\ \A i \in 1..Len(s) : IsDigit(s[i])

\* x.split('GMT')[0]: everything before the first "GMT"
RECURSIVE BeforeGMT(_)
BeforeGMT(x) ==
    IF x = <<>> \/ Head(x) = "GMT" THEN <<>> ELSE <<Head(x)>> \o BeforeGMT(Tail(x))

\* str.strip(): leading and trailing whitespace removed
RECURSIVE LStrip(_)
LStrip(x) == IF x # <<>> /\ Head(x) = " " THEN LStrip(Tail(x)) ELSE x

RECURSIVE RStrip(_)
RStrip(x) ==
    IF x # <<>> /\ x[Len(x)] = " " THEN RStrip(SubSeq(x, 1, Len(x) - 1)) ELSE x

Strip(x) == LStrip(RStrip(x))

\* the fields of a text split at "-"
RECURSIVE SplitDash(_, _)
SplitDash(x, cur) ==
    IF x = <<>> THEN <<cur>>
    ELSE IF Head(x) = "-" THEN <<cur>> \o SplitDash(Tail(x), <<>>)
    ELSE SplitDash(Tail(x), cur \o <<Head(x)>>)

\* pd.to_datetime of an ISO date: the calendar date <<year, month, day>>
to_datetime(x) ==
    LET f == SplitDash(x, <<>>) IN <<ParseInt(f[1]), ParseInt(f[2]), ParseInt(f[3])>>

\* %-m and %-d: no padding
NoPad2(n) == Str(n)

\* %m and %d: two digits, zero padded
Pad2(n) == IF n < 10 THEN <<"0">> \o Str(n) ELSE Str(n)

\* .dt.strftime('%Y-%m-%d')
strftime(ts) == Str(ts[1]) \o <<"-">> \o Pad2(ts[2]) \o <<"-">> \o Pad2(ts[3])

\* lines 31-32: the canonical date of a raw Date cell
Canonical(x) == strftime(to_datetime(Strip(BeforeGMT(x))))

\* calendar order of two dates
DateLess(a, b) ==
    \/ a[1] < b[1]
    \/ a[1] = b[1] /\ a[2] < b[2]
    \/ a[1] = b[1] /\ a[2] = b[2] /\ a[3] < b[3]

-----------------------------------------------------------------------------
(* DataFrames and files *)

Columns == <<"Date", "URL", "Device", "INP", "CLS", "LCP">>

\* Series.unique(): the values in order of first appearance
RECURSIVE Unique(_)
Unique(s) ==
    IF s = <<>> THEN <<>>
    ELSE LET r == Unique(SubSeq(s, 1, Len(s) - 1)) IN
         IF \E i \in 1..Len(r) : r[i] = s[Len(s)] THEN r ELSE r \o <<s[Len(s)]>>

\* the int64 columns of a report frame; the others hold str (dtype object)
NumericColumns == {"INP", "CLS", "LCP"}

\* the text of one cell as to_csv writes it
Cell(row, column) == IF column \in NumericColumns THEN Str(row[column]) ELSE row[column]

\* DataFrame.to_csv(sep='\t', index=False): header line, then one line per row
to_csv(frame) ==
    [header |-> Columns,
     body   |-> [i \in 1..Len(frame) |-> [j \in 1..Len(Columns) |-> Cell(frame[i], Columns[j])]]]

\* read_csv's dtype inference: a column whose every cell is a number is numeric
ColumnIsNumeric(file, j) == \A i \in 1..Len(file.body) : IsNumeric(file.body[i][j])

\* pd.read_csv(sep='\t'): rows keyed by the header, numeric columns parsed
read_csv(file) ==
    LET col == [name \in {file.header[j] : j \in 1..Len(file.header)} |->
                   CHOOSE j \in 1..Len(file.header) : file.header[j] = name]
        numeric == {name \in DOMAIN col : ColumnIsNumeric(file, col[name])}
    IN [i \in 1..Len(file.body) |->
          [name \in DOMAIN col |->
              IF name \in numeric
              THEN ParseInt(file.body[i][col[name]])
              ELSE file.body[i][col[name]]]]

\* os.path.join(HISTORY_DIR, f"{date}_cwv_report.txt")
HistoryFile(date) == date \o <<Suffix>>

\* file.endswith('_cwv_report.txt')
EndsWithSuffix(file) == file # <<>> /\ file[Len(file)] = Suffix

-----------------------------------------------------------------------------
(* Inputs: raw reports as pd.read_csv hands them over (line 30) *)

D09 == <<"2", "0", "2", "4", "-", "0", "1", "-", "0", "9">>
D10 == <<"2", "0", "2", "4", "-", "0", "1", "-", "1", "0">>

\* a Date cell padded with blanks and carrying a GMT suffix
D09GMT == <<" ">> \o D09 \o <<" ", "GMT", "+", "0", "0">>

\* Date cells as the reports carry them
RawDates == {D09, D09GMT, D10}

A_COM == <<"a", ".", "c", "o", "m">>
B_COM == <<"b", ".", "c", "o", "m">>
Desktop == <<"desktop">>
Mobile == <<"mobile">>

Row(date, url, device, m) ==
    [Date |-> date, URL |-> url, Device |-> device, INP |-> m[1], CLS |-> m[2], LCP |-> m[3]]

\* rows of the archiver's reports: for the first date a passing desktop row and a
\* failing mobile row that spell the date differently, for the second date one row
ArchiveRows ==
    {Row(D09, A_COM, Desktop, <<75, 75, 75>>), Row(D09GMT, A_COM, Mobile, <<60, 90, 90>>),
     Row(D10, A_COM, Mobile, <<90, 90, 74>>)}

SeqsUpTo(S, n) == UNION {[1..k -> S] : k \in 0..n}

Reports == SeqsUpTo(ArchiveRows, MaxRows)


-----------------------------------------------------------------------------
(* process_consolidated_file, lines 29-40 *)

EmptyStore == [f \in {} |-> None]

\* a check that never finds the file
NeverExists(S, f) == FALSE

\* os.path.exists(history_file)
Exists(S, f) == f \in DOMAIN S

\* open(history_file, 'w') and write: the file is created or replaced
WriteFile(S, f, content) == [x \in DOMAIN S \cup {f} |-> IF x = f THEN content ELSE S[x]]

\* lines 31-32 on the Date cells the reports carry
CanonicalOf == [x \in RawDates |-> Canonical(x)]

CanonicalDate(x) == CanonicalOf[x]

\* lines 31-32: the Date column replaced by the canonical date
ParseReport(R) == [i \in 1..Len(R) |-> [R[i] EXCEPT !.Date = CanonicalDate(@)]]

\* consolidated_df[consolidated_df['Date'] == date]
RowsOfDate(frame, date) == SelectSeq(frame, LAMBDA r : r.Date = date)

\* to_csv(mode='a') with no existence check: rows added to the file of the date
ArchiveDateAppend(S, cdf, date, U) ==
    LET date_df == RowsOfDate(cdf, date)
        history_file == HistoryFile(date)
        new == to_csv(date_df)
    IN  IF history_file \in U
        THEN [store |-> S, err |-> "OSError", written |-> {}, failed |-> {history_file}]
        ELSE [store |-> WriteFile(S, history_file,
                            IF history_file \in DOMAIN S
                            THEN [S[history_file] EXCEPT !.body = @ \o new.body]
                            ELSE new),
              err |-> "none", written |-> {history_file}, failed |-> {}]

\* consolidated_df.to_csv in place of date_df.to_csv: every file gets the whole report
ArchiveDateWhole(S, cdf, date, U) ==
    LET history_file == HistoryFile(date)
    IN  IF ~Exists(S, history_file)
        THEN IF history_file \in U
             THEN [store |-> S, err |-> "OSError", written |-> {}, failed |-> {history_file}]
             ELSE [store |-> WriteFile(S, history_file, to_csv(cdf)),
                   err |-> "none", written |-> {history_file}, failed |-> {}]
        ELSE [store |-> S, err |-> "none", written |-> {}, failed |-> {}]

\* lines 35-38, one turn of the loop; U: the files whose creation fails
ArchiveDate(S, cdf, date, U) ==
    LET date_df == RowsOfDate(cdf, date)
        history_file == HistoryFile(date)
    IN  IF ~Exists(S, history_file)
        THEN IF history_file \in U
             THEN [store |-> S, err |-> "OSError", written |-> {}, failed |-> {history_file}]
             ELSE [store |-> WriteFile(S, history_file, to_csv(date_df)),
                   err |-> "none", written |-> {history_file}, failed |-> {}]
        ELSE [store |-> S, err |-> "none", written |-> {}, failed |-> {}]

\* line 34: the loop; an exception of to_csv leaves the loop and the function
RECURSIVE ArchiveLoop(_, _, _, _)
ArchiveLoop(S, cdf, dates, U) ==
    IF dates = <<>> THEN [store |-> S, err |-> "none", written |-> {}, failed |-> {}]
    ELSE LET r == ArchiveDate(S, cdf, Head(dates), U) IN
         IF r.err # "none" THEN r
         ELSE LET rest == ArchiveLoop(r.store, cdf, Tail(dates), U) IN
              [rest EXCEPT !.written = @ \cup r.written]

\* the dates of a report, as consolidated_df['Date'].unique()
DatesOf(cdf) == Unique([i \in 1..Len(cdf) |-> cdf[i].Date])

\* lines 30-40 on report R and store S
Archive(R, S, U) == LET cdf == ParseReport(R) IN ArchiveLoop(S, cdf, DatesOf(cdf), U)

\* the dates of R that have no history file in S
Unseen(R, S) ==
    LET dates == DatesOf(ParseReport(R)) IN
    {HistoryFile(dates[i]) : i \in 1..Len(dates)} \ DOMAIN S

\* the dates of R whose history file exists in S with other rows than R carries
Kept(R, S) ==
    LET cdf == ParseReport(R)
        dates == DatesOf(cdf)
    IN {HistoryFile(dates[i]) : i \in {j \in 1..Len(dates) :
            /\ HistoryFile(dates[j]) \in DOMAIN S
            /\ S[HistoryFile(dates[j])] # to_csv(RowsOfDate(cdf, dates[j]))}}

Count(n, written) ==
    [f \in DOMAIN n \cup written |->
        (IF f \in DOMAIN n THEN n[f] ELSE 0) + (IF f \in written THEN 1 ELSE 0)]

ArchiveEffect(R, U, r) ==
    /\ store' = r.store
    /\ nwrites' = Count(nwrites, r.written)
    /\ log' = [unseen |-> Unseen(R, store), failed |-> r.failed, kept |-> Kept(R, store)]

-----------------------------------------------------------------------------
(* load_historical_data, lines 42-51 *)

\* os.listdir(HISTORY_DIR): the files in some order
ListDirs(S) ==
    {o \in [1..Cardinality(DOMAIN S) -> DOMAIN S] :
        \A i, j \in DOMAIN o : i # j => o[i] # o[j]}

\* pd.concat(all_data, ignore_index=True)
RECURSIVE Concat(_)
Concat(frames) == IF frames = <<>> THEN <<>> ELSE Head(frames) \o Concat(Tail(frames))

\* lines 44-51 on the store S, listed in order o
LoadAll(S, o) ==
    LET files == SelectSeq(o, EndsWithSuffix)
        all_data == [i \in 1..Len(files) |-> read_csv(S[files[i]])]
    IN IF all_data # <<>> THEN Concat(all_data) ELSE None

load_historical_data(R, U) ==
    LET r == Archive(R, store, U) IN
    /\ ArchiveEffect(R, U, r)
    /\ op' = "load_historical_data"
    /\ err' = r.err
    /\ IF r.err # "none" THEN ret' = None
       ELSE \E o \in ListDirs(r.store) : ret' = LoadAll(r.store, o)
    /\ UNCHANGED <<merged, merged_df, daily_metrics, pc, local, todo>>

-----------------------------------------------------------------------------
(* load_current_data, lines 53-59 *)

\* max(history_files) of a non-empty list
Max(files) == CHOOSE f \in files : \A g \in files : ~StrLess(f, g)

\* line 58: (df['INP'] >= 75) & (df['CLS'] >= 75) & (df['LCP'] >= 75)
AllGreen(r) == r.INP >= Threshold /\ r.CLS >= Threshold /\ r.LCP >= Threshold

WithAllGreen(frame) ==
    [i \in 1..Len(frame) |->
        [c \in DOMAIN frame[i] \cup {"all_green"} |->
            IF c = "all_green" THEN AllGreen(frame[i]) ELSE frame[i][c]]]

load_current_data(R, U) ==
    LET r == Archive(R, store, U)
        history_files == {f \in DOMAIN r.store : EndsWithSuffix(f)}
    IN
    /\ ArchiveEffect(R, U, r)
    /\ op' = "load_current_data"
    /\ IF r.err # "none" THEN err' = r.err /\ ret' = None
       ELSE IF history_files = {} THEN err' = "ValueError" /\ ret' = None
       ELSE /\ err' = "none"
            /\ ret' = WithAllGreen(read_csv(r.store[Max(history_files)]))
    /\ UNCHANGED <<merged, merged_df, daily_metrics, pc, local, todo>>

-----------------------------------------------------------------------------
(* The "Current Status" table, lines 185-227 *)

\* Series.max() of a column of str
MaxText(vals) == CHOOSE v \in vals : \A w \in vals : ~StrLess(v, w)

\* lines 188-198: the rows of one device on the latest date, in order
DeviceRows(frame, latest_date, device) ==
    SelectSeq(frame, LAMBDA r : r.Date = latest_date /\ r.Device = device)

\* the URLs of a frame, ascending (the index of an outer merge is sorted)
RECURSIVE SortedTexts(_)
SortedTexts(vals) ==
    IF vals = {} THEN <<>>
    ELSE LET least == CHOOSE v \in vals : \A w \in vals : ~StrLess(w, v)
         IN <<least>> \o SortedTexts(vals \ {least})

UrlsOf(frame) == {frame[i].URL : i \in 1..Len(frame)}

\* a float cell of the merged frame: <<v>>, or <<>> for NaN
Present(v) == <<v>>
NaN == <<>>

MergedRow(url, d, m) ==
    [URL |-> url,
     Desktop_INP |-> IF d = NaN THEN NaN ELSE Present(d[1].INP),
     Desktop_CLS |-> IF d = NaN THEN NaN ELSE Present(d[1].CLS),
     Desktop_LCP |-> IF d = NaN THEN NaN ELSE Present(d[1].LCP),
     Mobile_INP |-> IF m = NaN THEN NaN ELSE Present(m[1].INP),
     Mobile_CLS |-> IF m = NaN THEN NaN ELSE Present(m[1].CLS),
     Mobile_LCP |-> IF m = NaN THEN NaN ELSE Present(m[1].LCP)]

\* how='inner': only the URLs that have rows of both devices
InnerRowsOf(url, desktop_data, mobile_data) ==
    LET ds == SelectSeq(desktop_data, LAMBDA r : r.URL = url)
        ms == SelectSeq(mobile_data, LAMBDA r : r.URL = url)
    IN  [k \in 1..(Len(ds) * Len(ms)) |->
            MergedRow(url, <<ds[((k - 1) \div Len(ms)) + 1]>>,
                           <<ms[((k - 1) % Len(ms)) + 1]>>)]

\* the rows an outer merge yields for one URL: every pairing of its desktop rows
\* with its mobile rows, or the rows of the one side with NaN for the other
OuterRowsOf(url, desktop_data, mobile_data) ==
    LET ds == SelectSeq(desktop_data, LAMBDA r : r.URL = url)
        ms == SelectSeq(mobile_data, LAMBDA r : r.URL = url)
    IN  IF ds = <<>> THEN [k \in 1..Len(ms) |-> MergedRow(url, NaN, <<ms[k]>>)]
        ELSE IF ms = <<>> THEN [k \in 1..Len(ds) |-> MergedRow(url, <<ds[k]>>, NaN)]
        ELSE [k \in 1..(Len(ds) * Len(ms)) |->
                MergedRow(url, <<ds[((k - 1) \div Len(ms)) + 1]>>,
                               <<ms[((k - 1) % Len(ms)) + 1]>>)]

\* line 201: pd.merge(desktop_data, mobile_data, left_index=True, right_index=True,
\* how='outer').reset_index()
Merge(desktop_data, mobile_data) ==
    LET urls == SortedTexts(UrlsOf(desktop_data) \cup UrlsOf(mobile_data))
    IN Concat([k \in 1..Len(urls) |-> OuterRowsOf(urls[k], desktop_data, mobile_data)])

\* a comparison that lets a missing value pass
GeOrMissing(cell, t) == cell = NaN \/ cell[1] >= t

\* Series >= 75 on a float cell: False for NaN
Ge(cell, t) == cell # NaN /\ cell[1] >= t

\* lines 204-211
MergedAllGreen(r) ==
    /\ Ge(r.Desktop_INP, Threshold)
    /\ Ge(r.Desktop_CLS, Threshold)
    /\ Ge(r.Desktop_LCP, Threshold)
    /\ Ge(r.Mobile_INP, Threshold)
    /\ Ge(r.Mobile_CLS, Threshold)
    /\ Ge(r.Mobile_LCP, Threshold)

\* lines 204-217: the columns all_green and Status added
WithStatus(frame) ==
    [i \in 1..Len(frame) |->
        [c \in DOMAIN frame[i] \cup {"all_green", "Status"} |->
            IF c = "all_green" THEN MergedAllGreen(frame[i])
            ELSE IF c = "Status"
                 THEN (IF MergedAllGreen(frame[i]) THEN "All Green" ELSE "Needs Improvement")
                 ELSE frame[i][c]]]

\* lines 220-224: the status filter of the sidebar
StatusFilter(frame, selected_status) ==
    IF Cardinality(selected_status) < 2
    THEN IF "All Green" \in selected_status
         THEN SelectSeq(frame, LAMBDA r : r.all_green = TRUE)
         ELSE IF "Needs Improvement" \in selected_status
              THEN SelectSeq(frame, LAMBDA r : r.all_green = FALSE)
              ELSE frame
    ELSE frame

\* ascending=[True, True]: all_green False before True
SortsBeforeAscending(x, y) ==
    \/ ~x.all_green /\ y.all_green
    \/ x.all_green = y.all_green /\ StrLess(x.URL, y.URL)

\* the order of sort_values(['all_green', 'URL'], ascending=[False, True]):
\* all_green descending (True before False), then URL ascending
SortsBefore(x, y) ==
    \/ x.all_green /\ ~y.all_green
    \/ x.all_green = y.all_green /\ StrLess(x.URL, y.URL)

\* x put behind the last row that does not sort after it
Insert(sorted, x) ==
    LET at == IF \E i \in 1..Len(sorted) : SortsBefore(x, sorted[i])
             THEN (CHOOSE i \in 1..Len(sorted) :
                       /\ SortsBefore(x, sorted[i])
                       /\ \A j \in 1..(i - 1) : ~SortsBefore(x, sorted[j])) - 1
             ELSE Len(sorted)
    IN SubSeq(sorted, 1, at) \o <<x>> \o SubSeq(sorted, at + 1, Len(sorted))

\* line 227: DataFrame.sort_values, a stable sort
RECURSIVE SortValues(_)
SortValues(frame) ==
    IF frame = <<>> THEN <<>>
    ELSE Insert(SortValues(SubSeq(frame, 1, Len(frame) - 1)), frame[Len(frame)])

\* lines 185-227 on df = ret, the frame load_current_data returned
tab1(selected_status) ==
    LET latest_date == MaxText({ret[i].Date : i \in 1..Len(ret)})
        desktop_data == DeviceRows(ret, latest_date, Desktop)
        mobile_data == DeviceRows(ret, latest_date, Mobile)
        all == WithStatus(Merge(desktop_data, mobile_data))
    IN  /\ merged' = all
        /\ merged_df' = SortValues(StatusFilter(all, selected_status))
        /\ op' = "tab1"
        /\ err' = "none"
        /\ UNCHANGED <<store, ret, daily_metrics, log, pc, local, todo, nwrites>>

-----------------------------------------------------------------------------
(* The "Trend Analysis" tab, lines 298-309 *)

RECURSIVE SumOf(_)
SumOf(vals) == IF vals = <<>> THEN 0 ELSE Head(vals) + SumOf(Tail(vals))

\* a float as the fraction <<numerator, denominator>>
Fraction(n, d) == <<n, d>>

\* 'mean' of a column over the rows of a group
Mean(rows, column) == Fraction(SumOf([i \in 1..Len(rows) |-> rows[i][column]]), Len(rows))

\* line 305: lambda x: sum(x) / len(x) * 100 over the all_green column of a group
PassRate(rows) ==
    Fraction(100 * SumOf([i \in 1..Len(rows) |-> IF rows[i].all_green THEN 1 ELSE 0]),
             Len(rows))

\* the columns of a frame
ColumnsOf(frame) == UNION {DOMAIN frame[i] : i \in 1..Len(frame)}

\* lines 304-309: groupby('Date').agg({...}).reset_index(), groups in ascending order
DailyMetrics(frame) ==
    LET dates == SortedTexts({frame[i].Date : i \in 1..Len(frame)})
    IN [k \in 1..Len(dates) |->
          LET rows == RowsOfDate(frame, dates[k])
          IN [Date |-> dates[k],
              all_green |-> PassRate(rows),
              INP |-> Mean(rows, "INP"),
              CLS |-> Mean(rows, "CLS"),
              LCP |-> Mean(rows, "LCP")]]

\* lines 298-309 on historical_df = ret, the value load_historical_data returned;
\* agg on a column the frame does not have raises KeyError
tab2 ==
    /\ op' = "tab2"
    /\ IF ret = None
       THEN err' = "none" /\ daily_metrics' = None
       ELSE IF "all_green" \notin ColumnsOf(ret)
            THEN err' = "KeyError" /\ daily_metrics' = None
            ELSE err' = "none" /\ daily_metrics' = DailyMetrics(ret)
    /\ UNCHANGED <<store, ret, merged, merged_df, log, pc, local, todo, nwrites>>

-----------------------------------------------------------------------------
(* The pipeline run over and over on changing reports *)

\* to_csv may fail on a history file (read-only, disk full, ...); the loop ends at
\* the first failure, so one failing file at a time covers every run
HistoryFiles == {HistoryFile(CanonicalDate(d)) : d \in RawDates}

Failures == {{}} \cup {{f} : f \in HistoryFiles}

Procs == 1..NumProcs

Init ==
    /\ store = EmptyStore
    /\ ret = None
    /\ merged = None
    /\ merged_df = None
    /\ daily_metrics = None
    /\ op = "start"
    /\ err = "none"
    /\ log = [unseen |-> {}, failed |-> {}, kept |-> {}]
    /\ pc = [p \in Procs |-> "idle"]
    /\ local = [p \in Procs |-> None]
    /\ todo = [p \in Procs |-> <<>>]
    /\ nwrites = [f \in {} |-> 0]

RunLoadHistorical == \E R \in Reports, U \in Failures : load_historical_data(R, U)

RunLoadCurrent == \E R \in Reports, U \in Failures : load_current_data(R, U)

Next == RunLoadHistorical \/ RunLoadCurrent

Spec == Init /\ [][Next]_vars

-----------------------------------------------------------------------------
(* One run of the script on a report of one date: line 80, then the table *)

Scores == {<<80, 80, 80>>, <<60, 90, 90>>, <<75, 75, 74>>}

MergeRows == {Row(D09, u, d, m) : u \in {A_COM, B_COM}, d \in {Desktop, Mobile}, m \in Scores}

MergeReports == SeqsUpTo(MergeRows, MaxSliceRows) \ {<<>>}

StatusOptions == {"All Green", "Needs Improvement"}

LoadSlice == op = "start" /\ \E R \in MergeReports : load_current_data(R, {})

ShowTable ==
    /\ op = "load_current_data" /\ err = "none"
    /\ \E selected_status \in SUBSET StatusOptions : tab1(selected_status)

NextMerge == LoadSlice \/ ShowTable

SpecMerge == Init /\ [][NextMerge]_vars

-----------------------------------------------------------------------------
(* Script runs that load the history (line 81) and show the trend tab *)

ShowTrend == op = "load_historical_data" /\ err = "none" /\ tab2

NextTrend == RunLoadHistorical \/ ShowTrend

SpecTrend == Init /\ [][NextTrend]_vars

-----------------------------------------------------------------------------
(* Several processes archiving at once: process_consolidated_file step by step.   *)
(* Each process reads the report as it is when it starts (line 30); the test of    *)
(* line 37 and the write of line 38 are separate system calls.                     *)

After(p) == IF Len(todo[p]) > 1 THEN "exists" ELSE "return"

\* lines 30-34: the report read and parsed, the loop entered
ReadReport(p, R) ==
    /\ pc[p] = "idle"
    /\ local' = [local EXCEPT ![p] = ParseReport(R)]
    /\ todo' = [todo EXCEPT ![p] = DatesOf(ParseReport(R))]
    /\ pc' = [pc EXCEPT ![p] = IF R = <<>> THEN "return" ELSE "exists"]
    /\ UNCHANGED <<store, ret, merged, merged_df, daily_metrics, op, err, log, nwrites>>

\* line 37: os.path.exists(history_file)
TestExists(p) ==
    /\ pc[p] = "exists"
    /\ IF Exists(store, HistoryFile(Head(todo[p])))
       THEN /\ pc' = [pc EXCEPT ![p] = After(p)]
            /\ todo' = [todo EXCEPT ![p] = Tail(@)]
       ELSE /\ pc' = [pc EXCEPT ![p] = "to_csv"]
            /\ UNCHANGED todo
    /\ UNCHANGED <<store, ret, merged, merged_df, daily_metrics, op, err, log, local, nwrites>>

\* line 38: date_df.to_csv(history_file)
WriteSlice(p) ==
    /\ pc[p] = "to_csv"
    /\ LET date == Head(todo[p])
           history_file == HistoryFile(date)
       IN /\ store' = WriteFile(store, history_file, to_csv(RowsOfDate(local[p], date)))
          /\ nwrites' = Count(nwrites, {history_file})
    /\ pc' = [pc EXCEPT ![p] = After(p)]
    /\ todo' = [todo EXCEPT ![p] = Tail(@)]
    /\ UNCHANGED <<ret, merged, merged_df, daily_metrics, op, err, log, local>>

\* line 40
Return(p) ==
    /\ pc[p] = "return"
    /\ pc' = [pc EXCEPT ![p] = "returned"]
    /\ UNCHANGED <<store, ret, merged, merged_df, daily_metrics, op, err, log, local, todo, nwrites>>

NextConc ==
    \E p \in Procs :
        \/ \E R \in Reports : ReadReport(p, R)
        \/ TestExists(p)
        \/ WriteSlice(p)
        \/ Return(p)

SpecConc == Init /\ [][NextConc]_vars

-----------------------------------------------------------------------------
(* Properties of the archiver, the loader and the snapshot selector *)

\* the calendar date a history file is named after
FileDate(f) == to_datetime(SubSeq(f, 1, Len(f) - 1))

\* C1: archiving a report twice in a row leaves the history store as archiving it
\* once does: same files, same rows in each.
C1_ArchiveIdempotent ==
    \A R \in Reports, U \in Failures :
        LET once == Archive(R, store, U).store
        IN Archive(R, once, U).store = once

\* C1 witness: the store is what archiving a two-date report produced, and archiving
\* that report again leaves it alone.
C1_Witness ==
    /\ op # "start" /\ err = "none"
    /\ Cardinality(DOMAIN store) = 2
    /\ \E R \in Reports :
        /\ Unseen(R, EmptyStore) = DOMAIN store
        /\ Archive(R, EmptyStore, {}).store = store
        /\ Archive(R, store, {}).store = store

\* C2: write-once: a history file, once written, is never removed and its content
\* never changes, whatever reports are archived later.
C2_WriteOnce ==
    [][\A f \in DOMAIN store : f \in DOMAIN store' /\ store'[f] = store[f]]_vars

\* C2 witness: an archive run met a date whose file exists with other rows than the
\* report carries, and kept the file.
C2_Witness == op # "start" /\ log.kept # {} /\ log.kept \subseteq DOMAIN store

\* C4 as claimed: after archiving R, the loaded dataset holds, for every date of R,
\* exactly the rows of R of that date.
C4_RoundTripEveryDate ==
    \A R \in Reports, U \in Failures :
        LET r == Archive(R, store, U)
            cdf == ParseReport(R)
            dates == DatesOf(cdf)
        IN r.err = "none" =>
            \A o \in ListDirs(r.store), i \in 1..Len(dates) :
                RowsOfDate(LoadAll(r.store, o), dates[i]) = RowsOfDate(cdf, dates[i])

\* C4 amended: after archiving R, the loaded dataset holds, for every date of R that
\* had no slice before, exactly the rows of R of that date.
C4_RoundTripUnseenDate ==
    \A R \in Reports, U \in Failures :
        LET r == Archive(R, store, U)
            cdf == ParseReport(R)
            dates == DatesOf(cdf)
        IN r.err = "none" =>
            \A o \in ListDirs(r.store), i \in 1..Len(dates) :
                HistoryFile(dates[i]) \notin DOMAIN store =>
                    RowsOfDate(LoadAll(r.store, o), dates[i]) = RowsOfDate(cdf, dates[i])

\* C4 witness: the loader returned a dataset after archiving a report that brought a
\* new date next to a date already archived.
C4_Witness ==
    /\ op = "load_historical_data" /\ err = "none"
    /\ log.unseen # {} /\ DOMAIN store \ log.unseen # {}
    /\ Len(ret) > 1

\* C5: a failed write of one date's slice does not end the archive run: every other
\* unseen date of the report still gets its file.
C5_FailureIsolated ==
    (op # "start" /\ log.failed # {}) => (log.unseen \ log.failed) \subseteq DOMAIN store

\* C6: on an empty history store load_current_data fails with NoDataError.
C6_NoDataError ==
    (op = "load_current_data" /\ DOMAIN store = {} /\ log.failed = {})
        => err = "NoDataError"

\* C7: load_current_data returns exactly the rows of the slice of the latest archived
\* date, each with all_green true iff INP >= 75 and CLS >= 75 and LCP >= 75.
C7_LatestSnapshot ==
    (op = "load_current_data" /\ err = "none") =>
        \E f \in DOMAIN store :
            /\ \A g \in DOMAIN store : ~DateLess(FileDate(f), FileDate(g))
            /\ LET rows == read_csv(store[f]) IN
               /\ Len(ret) = Len(rows)
               /\ \A i \in 1..Len(rows) :
                    /\ \A j \in 1..Len(Columns) : ret[i][Columns[j]] = rows[i][Columns[j]]
                    /\ ret[i].Date = strftime(FileDate(f))
                    /\ ret[i].all_green =
                        (rows[i].INP >= 75 /\ rows[i].CLS >= 75 /\ rows[i].LCP >= 75)

\* C7 witness: two dates are archived and the snapshot is the later one's slice.
C7_Witness ==
    /\ op = "load_current_data" /\ err = "none"
    /\ Cardinality(DOMAIN store) = 2
    /\ ret # None
    /\ \A i \in 1..Len(ret) : ret[i].Date = D10 /\ ~ret[i].all_green

-----------------------------------------------------------------------------
(* Properties of concurrent archivers *)

\* C3: with processes archiving at once, the test for the file and its write are one
\* atomic step: every history file is written by exactly one process, once.
C3_WrittenOnce == \A f \in DOMAIN nwrites : nwrites[f] <= 1

-----------------------------------------------------------------------------
(* Properties of the "Current Status" table *)

\* (URL, Device) identifies a row of the frame
UniqueUrlDevice(frame) ==
    \A i, j \in 1..Len(frame) :
        (frame[i].URL = frame[j].URL /\ frame[i].Device = frame[j].Device) => i = j

Metrics ==
    {"Desktop_INP", "Desktop_CLS", "Desktop_LCP", "Mobile_INP", "Mobile_CLS", "Mobile_LCP"}

DesktopMissing(r) == r.Desktop_INP = NaN /\ r.Desktop_CLS = NaN /\ r.Desktop_LCP = NaN

MobileMissing(r) == r.Mobile_INP = NaN /\ r.Mobile_CLS = NaN /\ r.Mobile_LCP = NaN

\* C8: when (URL, Device) identifies a row of the slice, every URL with a desktop or
\* a mobile row appears exactly once in the merge, and the merge has no more records
\* than the slice has URLs.
C8_OneRecordPerUrl ==
    (op = "tab1" /\ UniqueUrlDevice(ret)) =>
        /\ \A i \in 1..Len(ret) :
              ret[i].Device \in {Desktop, Mobile} =>
                  Cardinality({k \in 1..Len(merged) : merged[k].URL = ret[i].URL}) = 1
        /\ Len(merged) <= Cardinality(UrlsOf(ret))

\* C8 witness: a slice with both rows of one URL and only the desktop row of another
\* was merged into two records.
C8_Witness ==
    /\ op = "tab1" /\ UniqueUrlDevice(ret)
    /\ Len(ret) = 3 /\ Len(merged) = 2
    /\ \E k \in 1..2 : MobileMissing(merged[k]) /\ ~DesktopMissing(merged[k])

\* C9: all_green implies every present metric >= 75; not all_green implies a present
\* metric < 75 or a device without data; a record with one device missing is never
\* all_green.
C9_AllGreen ==
    op = "tab1" =>
        \A k \in 1..Len(merged) :
            LET r == merged[k]
                present == {c \in Metrics : r[c] # NaN}
            IN /\ r.all_green => \A c \in present : r[c][1] >= 75
               /\ ~r.all_green =>
                    \/ \E c \in present : r[c][1] < 75
                    \/ DesktopMissing(r) \/ MobileMissing(r)
               /\ (DesktopMissing(r) \/ MobileMissing(r)) => ~r.all_green

\* C9 witness: a URL with only a desktop row, all three metrics >= 75, is not
\* all_green; another URL with all six metrics >= 75 is.
C9_Witness ==
    /\ op = "tab1"
    /\ \E k \in 1..Len(merged) :
        /\ MobileMissing(merged[k]) /\ ~merged[k].all_green
        /\ merged[k].Desktop_INP[1] >= 75
        /\ merged[k].Desktop_CLS[1] >= 75
        /\ merged[k].Desktop_LCP[1] >= 75
    /\ \E k \in 1..Len(merged) : merged[k].all_green

\* C10 as claimed: in the table every record that is not all_green comes before every
\* record that is, and within each group the URLs ascend.
C10_FailingFirst ==
    op = "tab1" =>
        \A i, j \in 1..Len(merged_df) :
            i < j =>
                /\ ~(merged_df[i].all_green /\ ~merged_df[j].all_green)
                /\ merged_df[i].all_green = merged_df[j].all_green
                       => ~StrLess(merged_df[j].URL, merged_df[i].URL)

\* C10 amended: in the table every record that is all_green comes before every record
\* that is not, and within each group the URLs ascend.
C10_GreenFirst ==
    op = "tab1" =>
        \A i, j \in 1..Len(merged_df) :
            i < j =>
                /\ ~(~merged_df[i].all_green /\ merged_df[j].all_green)
                /\ merged_df[i].all_green = merged_df[j].all_green
                       => ~StrLess(merged_df[j].URL, merged_df[i].URL)

\* C10 witness: the table shows an all_green record first and a failing record, of a
\* URL that sorts lower, second.
C10_Witness ==
    /\ op = "tab1"
    /\ Len(merged_df) = 2
    /\ merged_df[1].all_green /\ ~merged_df[2].all_green
    /\ StrLess(merged_df[2].URL, merged_df[1].URL)

-----------------------------------------------------------------------------
(* Properties of the "Trend Analysis" tab *)

\* C11: for a non-empty historical dataset as the loader returns it, the daily trend
\* is computed without failing on a missing field and has one entry per archived
\* date, whose overall pass rate is the fraction of that date's rows with INP >= 75
\* and CLS >= 75 and LCP >= 75.
C11_DailyTrend ==
    (op = "tab2" /\ ret # None) =>
        /\ err = "none"
        /\ Len(daily_metrics) = Cardinality(DOMAIN store)
        /\ \A f \in DOMAIN store :
            \E k \in 1..Len(daily_metrics) :
                LET rows == RowsOfDate(ret, strftime(FileDate(f)))
                    passing == {i \in 1..Len(rows) :
                                   rows[i].INP >= 75 /\ rows[i].CLS >= 75 /\ rows[i].LCP >= 75}
                IN /\ daily_metrics[k].Date = strftime(FileDate(f))
                   /\ daily_metrics[k].all_green[1] * Len(rows)
                          = 100 * Cardinality(passing) * daily_metrics[k].all_green[2]

====
